---- MODULE Spec2Model ----
(***************************************************************************)
(* Imputation subsystem of the HR cleaning pipeline (src/src/imputation.py)*)
(*                                                                         *)
(* A DataFrame is a record                                                 *)
(*    n     : number of rows (len(df))                                     *)
(*    cols  : the column labels, in column order                           *)
(*    data  : column label -> sequence of n cells                          *)
(*    dtype : column label -> "object" | "float64" | "Int64"               *)
(* A cell is an integer.  NA is the missing cell (NaN / pd.NA / None).     *)
(* Cells of an object column are category codes whose integer order is the *)
(* sort order of the labels.  Cells of a numeric column are counted in     *)
(* halves (2 is 1.0, 3 is 1.5), so that the median of two whole numbers    *)
(* is representable.                                                       *)
(* Thresholds are the rationals k/Den; a ratio of two counts is compared    *)
(* with a threshold by cross-multiplication.                               *)
(***************************************************************************)
EXTENDS Integers, Sequences, FiniteSets, TLC

\* ------------------------------------------------------------------ bounds
MaxRows == 4
MaxCalls == 2

\* --------------------------------------------------------------- constants
NA == -1
Den == 20
DEF_umbral_nulos_alto == 4
DEF_umbral_nulos_bajo == 1
DEF_umbral_moda_bajo == 10
DEF_umbral_moda_medio == 12
DEF_umbral_ventaja == 4

VARIABLES
    df,         \* the DataFrame the caller owns and the imputers mutate
    df0,        \* the DataFrame as it was when the running call started
    pc,         \* "idle" | "pipe" | "cat_loop" | "num_loop" | "num_alto" |
                \* "num_restore" | "returned" | "raised" | "exported"
    args,       \* the arguments of the running (or last) call
    i,          \* position of the running loop in its column list
    rama,       \* column label -> the branch the running call took for it
    ncalls,     \* calls started so far
    validas,    \* columnas_validas of the running imputar_numericas call
    contexto,   \* cols_num_contexto of the running imputar_numericas call
    err         \* the exception that ended the call, "none" otherwise

vars == <<df, df0, pc, args, i, rama, ncalls, validas, contexto, err>>

numvars == <<validas, contexto, err>>

\* ------------------------------------------------------------ the dataset
Names == {"dept", "role", "age", "rate", "ghost", "age_missing", "rate_missing"}

CatVals == {1, 2}

SeqsOver(S, n) == [1..n -> S]

\* ------------------------------------------------------- column statistics
isnull(s) == {r \in DOMAIN s : s[r] = NA}

nulos_de(s) == Cardinality(isnull(s))

Count(s, v) == Cardinality({r \in DOMAIN s : s[r] = v})

Presentes(s) == {s[r] : r \in DOMAIN s} \ {NA}

\* fillna written as a plain assignment of the fill value
fillna_asigna(s, v) == [r \in DOMAIN s |-> v]

\* fillna written as s.where(s.isnull(), v): the mask the wrong way round
fillna_where(s, v) == [r \in DOMAIN s |-> IF s[r] = NA THEN NA ELSE v]

fillna(s, v) == [r \in DOMAIN s |-> IF s[r] = NA THEN v ELSE s[r]]

\* nulos / total if total > 0 else 0, kept as the fraction <<numerator, denominator>>
porcentaje_nulos(s, total) == IF total > 0 THEN <<nulos_de(s), total>> ELSE <<0, 1>>

\* fraction p compared with the threshold k/Den.  The code compares doubles; the
\* quotient of two small counts and a decimal threshold compare as the fractions
\* do.  The difference of two quotients (ventaja, line 51) is rounded once more:
\* 3/5 - 2/5 is just below 0.2 as a double.  Within MaxRows <= 5 and the thresholds
\* of CatArgs that happens only for a column without a missing cell, where the
\* branches write the same cells.
Gt(p, k) == p[1] * Den > k * p[2]
Le(p, k) == p[1] * Den <= k * p[2]
Ge(p, k) == p[1] * Den >= k * p[2]

FirstPos(s, v) == CHOOSE r \in DOMAIN s : s[r] = v /\ \A q \in DOMAIN s : s[q] = v => r <= q

\* Series.value_counts(dropna=True): the present values with their counts, most
\* frequent first, equal counts in order of first appearance
RECURSIVE Rank(_, _)
Rank(s, vals) ==
    IF vals = {} THEN <<>>
    ELSE LET top == CHOOSE v \in vals : \A w \in vals :
                        \/ Count(s, v) > Count(s, w)
                        \/ Count(s, v) = Count(s, w) /\ FirstPos(s, v) <= FirstPos(s, w)
         IN <<[valor |-> top, n |-> Count(s, top)]>> \o Rank(s, vals \ {top})

value_counts(s) == Rank(s, Presentes(s))

\* Series.mode(dropna=True)[0]: the most frequent values come sorted, [0] is the smallest
mode0(s) == CHOOSE v \in Presentes(s) : \A w \in Presentes(s) :
                \/ Count(s, v) > Count(s, w)
                \/ Count(s, v) = Count(s, w) /\ v <= w

\* ---------------------------------------------------- imputar_categoricas
\* CatRama with one comparison of lines 30, 57 or 62 changed:
\*   variante 1: line 57 reads < instead of <=
\*   variante 2: line 30 is absent
\*   variante 3: line 30 reads >= instead of >
\*   variante 4: line 62 reads "or" instead of "and"
\*   variante 5: lines 37-40 are absent and an empty ranking counts as zeros
\*   variante 6: line 51 takes pct_segundo as 0.0 whatever the ranking holds
CatRamaVar(s, total, a, variante) ==
    LET pn == porcentaje_nulos(s, total)
        valores == value_counts(s)
        primero == IF Len(valores) > 0 THEN valores[1].n ELSE 0
        segundo == IF Len(valores) > 1 THEN valores[2].n ELSE 0
        bajo == IF variante = 1 THEN ~Ge(pn, a.umbral_nulos_bajo) ELSE Le(pn, a.umbral_nulos_bajo)
        umbral_moda == IF bajo THEN a.umbral_moda_bajo ELSE a.umbral_moda_medio
        alto == CASE variante = 2 -> FALSE
                  [] variante = 3 -> Ge(pn, a.umbral_nulos_alto)
                  [] OTHER -> Gt(pn, a.umbral_nulos_alto)
        c1 == Ge(<<primero, total>>, umbral_moda)
        c2 == Ge(<<primero - (IF variante = 6 THEN 0 ELSE segundo), total>>, a.umbral_ventaja)
    IN  IF alto THEN "nulos_alto"
        ELSE IF variante # 5 /\ Len(valores) = 0 THEN "sin_valores"
        ELSE IF (IF variante = 4 THEN c1 \/ c2 ELSE c1 /\ c2) THEN "moda"
        ELSE "unknown"

CatRama_lt_bajo(s, total, a) == CatRamaVar(s, total, a, 1)
CatRama_sin_alto(s, total, a) == CatRamaVar(s, total, a, 2)
CatRama_ge_alto(s, total, a) == CatRamaVar(s, total, a, 3)
CatRama_or(s, total, a) == CatRamaVar(s, total, a, 4)
CatRama_sin_37(s, total, a) == CatRamaVar(s, total, a, 5)
CatRama_sin_segundo(s, total, a) == CatRamaVar(s, total, a, 6)

\* The branch lines 26-66 take for one existing column
CatRama(s, total, a) ==
    LET pn == porcentaje_nulos(s, total)
        valores == value_counts(s)
        primero == valores[1].n
        segundo == IF Len(valores) > 1 THEN valores[2].n ELSE 0
        umbral_moda == IF Le(pn, a.umbral_nulos_bajo) THEN a.umbral_moda_bajo
                       ELSE a.umbral_moda_medio
    IN  IF Gt(pn, a.umbral_nulos_alto) THEN "nulos_alto"
        ELSE IF Len(valores) = 0 THEN "sin_valores"
        ELSE IF Ge(<<primero, total>>, umbral_moda)
                /\ Ge(<<primero - segundo, total>>, a.umbral_ventaja) THEN "moda"
        ELSE "unknown"

\* CatRelleno with the fillna of line 39 left out
CatRelleno_sin_39(s, total, a) ==
    CASE CatRama(s, total, a) = "moda" -> mode0(s)
      [] CatRama(s, total, a) = "sin_valores" -> NA
      [] OTHER -> a.etiqueta_unknown

\* The value lines 32, 39, 64, 66 pass to fillna
CatRelleno(s, total, a) ==
    IF CatRama(s, total, a) = "moda" THEN mode0(s) ELSE a.etiqueta_unknown

CatArgs ==
    [fn : {"imputar_categoricas"},
     columnas : {<<"dept">>, <<"dept", "ghost">>, <<"ghost", "dept">>, <<"role", "dept">>,
                 <<"dept", "ghost", "role">>, <<>>},
     umbral_nulos_alto : {DEF_umbral_nulos_alto, 5, 20},
     umbral_nulos_bajo : {DEF_umbral_nulos_bajo, 5},
     umbral_moda_bajo : {DEF_umbral_moda_bajo, 15},
     umbral_moda_medio : {DEF_umbral_moda_medio},
     umbral_ventaja : {DEF_umbral_ventaja, 0, 10},
     etiqueta_unknown : {2, 3}]

imputar_categoricas_call ==
    /\ pc = "idle"
    /\ ncalls = 0
    /\ \E a \in CatArgs : args' = a
    /\ pc' = "cat_loop"
    /\ i' = 1
    /\ df0' = df
    /\ rama' = [c \in Names |-> "none"]
    /\ ncalls' = 1
    /\ UNCHANGED <<df, numvars>>

imputar_categoricas_again ==
    /\ pc = "returned"
    /\ args.fn = "imputar_categoricas"
    /\ ncalls < MaxCalls
    /\ pc' = "cat_loop"
    /\ i' = 1
    /\ df0' = df
    /\ rama' = [c \in Names |-> "none"]
    /\ ncalls' = ncalls + 1
    /\ UNCHANGED <<df, args, numvars>>

CatCol == args.columnas[i]

\* line 24 reading break instead of continue
cat_omitir_break ==
    /\ pc = "cat_loop"
    /\ i <= Len(args.columnas)
    /\ CatCol \notin DOMAIN df.data
    /\ rama' = [rama EXCEPT ![CatCol] = "omitida"]
    /\ i' = Len(args.columnas) + 1
    /\ UNCHANGED <<df, df0, pc, args, ncalls, numvars>>

\* lines 22-24
cat_omitir ==
    /\ pc = "cat_loop"
    /\ i <= Len(args.columnas)
    /\ CatCol \notin DOMAIN df.data
    /\ rama' = [rama EXCEPT ![CatCol] = "omitida"]
    /\ i' = i + 1
    /\ UNCHANGED <<df, df0, pc, args, ncalls, numvars>>

\* lines 26-66 with line 32 reading df[columnas] = df[columnas].fillna(etiqueta_unknown)
cat_imputar_todas(tag) ==
    /\ pc = "cat_loop"
    /\ i <= Len(args.columnas)
    /\ CatCol \in DOMAIN df.data
    /\ CatRama(df.data[CatCol], df.n, args) = tag
    /\ df' = IF tag = "nulos_alto"
             THEN [df EXCEPT !.data = [c \in DOMAIN df.data |->
                        IF \E k \in 1..Len(args.columnas) : args.columnas[k] = c
                        THEN fillna(df.data[c], args.etiqueta_unknown)
                        ELSE df.data[c]]]
             ELSE [df EXCEPT !.data[CatCol] = fillna(@, CatRelleno(@, df.n, args))]
    /\ rama' = [rama EXCEPT ![CatCol] = tag]
    /\ i' = i + 1
    /\ UNCHANGED <<df0, pc, args, ncalls, numvars>>

\* lines 26-66 for an existing column
cat_imputar(tag) ==
    /\ pc = "cat_loop"
    /\ i <= Len(args.columnas)
    /\ CatCol \in DOMAIN df.data
    /\ CatRama(df.data[CatCol], df.n, args) = tag
    /\ df' = [df EXCEPT !.data[CatCol] = fillna(@, CatRelleno(@, df.n, args))]
    /\ rama' = [rama EXCEPT ![CatCol] = tag]
    /\ i' = i + 1
    /\ UNCHANGED <<df0, pc, args, ncalls, numvars>>

cat_nulos_alto == cat_imputar("nulos_alto")
cat_sin_valores == cat_imputar("sin_valores")
cat_moda == cat_imputar("moda")
cat_unknown == cat_imputar("unknown")

\* line 68
imputar_categoricas_return ==
    /\ pc = "cat_loop"
    /\ i > Len(args.columnas)
    /\ pc' = "returned"
    /\ UNCHANGED <<df, df0, args, i, rama, ncalls, numvars>>

\* ------------------------------------------------------------------- Init
NoArgs == [fn |-> "none", columnas |-> <<>>]

Schema == <<"dept", "role", "age", "rate">>

RolePatterns(n) == {[r \in 1..n |-> NA], [r \in 1..n |-> IF r = 1 THEN NA ELSE 2]}

InitCat ==
    /\ \E n \in 0..MaxRows :
       \E dept \in SeqsOver(CatVals \cup {NA}, n) :
       \E role \in RolePatterns(n) :
          df = [n |-> n,
                cols |-> Schema,
                data |-> [c \in {"dept", "role", "age", "rate"} |->
                            CASE c = "dept" -> dept
                              [] c = "role" -> role
                              [] c = "age" -> [r \in 1..n |-> IF r = 1 THEN NA ELSE 2 * r]
                              [] c = "rate" -> [r \in 1..n |-> IF r = 2 THEN NA ELSE 3]],
                dtype |-> [c \in {"dept", "role", "age", "rate"} |->
                            CASE c \in {"dept", "role"} -> "object"
                              [] c = "age" -> "Int64"
                              [] c = "rate" -> "float64"]]
    /\ df0 = df
    /\ pc = "idle"
    /\ args = NoArgs
    /\ i = 1
    /\ rama = [c \in Names |-> "none"]
    /\ ncalls = 0
    /\ validas = <<>>
    /\ contexto = <<>>
    /\ err = "none"

NextCat ==
    \/ imputar_categoricas_call
    \/ imputar_categoricas_again
    \/ cat_omitir
    \/ cat_nulos_alto
    \/ cat_sin_valores
    \/ cat_moda
    \/ cat_unknown
    \/ imputar_categoricas_return

SpecCat == InitCat /\ [][NextCat]_vars

\* ------------------------------------------------------ imputar_numericas
\* select_dtypes(include=[np.number]) and pd.api.types.is_integer_dtype
NumericDtypes == {"Int64", "int64", "float64"}

IntegerDtypes == {"Int64", "int64"}

\* a whole number k as a cell of a numeric column (cells count halves)
Entero(k) == 2 * k

\* f"{col}_missing"
Indicador(c) == CASE c = "age" -> "age_missing"
                  [] c = "rate" -> "rate_missing"
                  [] c = "dept" -> "dept_missing"
                  [] c = "role" -> "role_missing"

\* the k-th smallest present value of a column
Kth(s, k) ==
    LET P == DOMAIN s \ isnull(s)
    IN  CHOOSE v \in Presentes(s) :
            /\ Cardinality({r \in P : s[r] < v}) < k
            /\ k <= Cardinality({r \in P : s[r] <= v})

\* SimpleImputer(strategy="median").statistics_: the median of the present values,
\* the mean of the two middle ones when their number is even
mediana(s) ==
    LET k == Len(s) - nulos_de(s)
    IN  (Kth(s, (k + 1) \div 2) + Kth(s, k \div 2 + 1)) \div 2

\* SimpleImputer.fit_transform rejects an array without rows and drops a column
\* without a present value, and the assignment of the narrower array then fails
MedianaFalla(s) == Presentes(s) = {}

\* KNNImputer drops a context column without a present value; the narrower array
\* fails in inverse_transform
KnnFalla(d, ctx) == \E k \in 1..Len(ctx) : Presentes(d.data[ctx[k]]) = {}

\* the values a neighbour average can take for a column: between the smallest
\* and the largest present value
KnnValores(s) ==
    LET lo == Kth(s, 1)
        hi == Kth(s, Len(s) - nulos_de(s))
    IN  {lo, (lo + hi) \div 2, hi}

\* line 118 reading X[col], the context before the imputation, instead of X_imputed[col]
KnnColumnas_sin_imputar(s) == {s}

\* column c of X_imputed: present cells as they are, each missing cell an average
KnnColumnas(s) ==
    {t \in [DOMAIN s -> KnnValores(s) \cup Presentes(s)] :
        \A r \in DOMAIN s : s[r] # NA => t[r] = s[r]}

\* df[col].isnull().astype(int) computed on the filled column
isnull_astype_int_tarde(s) == [r \in DOMAIN s |-> Entero(0)]

\* df[col].isnull().astype(int)
isnull_astype_int(s) == [r \in DOMAIN s |-> IF s[r] = NA THEN Entero(1) ELSE Entero(0)]

\* Series.round(): numpy rounds a half to the even neighbour
RoundHalfEven(h) ==
    IF h = NA \/ h % 2 = 0 THEN h
    ELSE LET k == (h - 1) \div 2
         IN  IF k % 2 = 0 THEN 2 * k ELSE 2 * (k + 1)

\* .astype("Int64") without the .round() of line 147
restaurar_sin_round(s) == s

\* lines 145-149
restaurar(s) == [r \in DOMAIN s |-> RoundHalfEven(s[r])]

\* df.insert(0, c, values) for a new column
SetCol_al_frente(d, c, values, dt) ==
    [d EXCEPT !.cols = IF c \in DOMAIN d.data THEN @ ELSE <<c>> \o @,
              !.data = [x \in DOMAIN d.data \cup {c} |-> IF x = c THEN values ELSE d.data[x]],
              !.dtype = [x \in DOMAIN d.dtype \cup {c} |-> IF x = c THEN dt ELSE d.dtype[x]]]

\* df[c] = values: an existing column is replaced in place, a new one is appended
SetCol(d, c, values, dt) ==
    [d EXCEPT !.cols = IF c \in DOMAIN d.data THEN @ ELSE Append(@, c),
              !.data = [x \in DOMAIN d.data \cup {c} |-> IF x = c THEN values ELSE d.data[x]],
              !.dtype = [x \in DOMAIN d.dtype \cup {c} |-> IF x = c THEN dt ELSE d.dtype[x]]]

EsNumerica(d, c) == c \in DOMAIN d.data /\ d.dtype[c] \in NumericDtypes

\* lines 80 and 87 without select_dtypes: every requested column of the DataFrame
ColumnasValidas_sin_dtype(d, columnas) ==
    LET Test(c) == c \in DOMAIN d.data IN SelectSeq(columnas, Test)

\* lines 80 and 87
ColumnasValidas(d, columnas) ==
    LET Test(c) == EsNumerica(d, c) IN SelectSeq(columnas, Test)

\* line 86
ColsNumDf(d) ==
    LET Test(c) == EsNumerica(d, c) IN SelectSeq(d.cols, Test)

\* the thresholds name a low and a high tier: umbral_nulos_bajo <= umbral_nulos_alto
NumArgs ==
  {a \in
    [fn : {"imputar_numericas"},
     columnas : {<<"age">>, <<"age", "rate">>, <<"rate", "age">>, <<"age", "ghost">>,
                 <<"ghost", "age">>, <<"dept", "age">>, <<"dept">>, <<"ghost">>, <<>>},
     umbral_nulos_bajo : {DEF_umbral_nulos_bajo, 5, 10},
     umbral_nulos_alto : {DEF_umbral_nulos_alto, 10},
     crear_indicador_missing : BOOLEAN,
     usar_knn_en_alto : BOOLEAN] : a.umbral_nulos_bajo <= a.umbral_nulos_alto}

NumStart(a) ==
    /\ args' = a
    /\ df0' = df
    /\ rama' = [c \in Names |-> "none"]
    /\ ncalls' = ncalls + 1
    /\ i' = 1
    /\ UNCHANGED df

\* line 80: df[columnas] with a label that is no column raises KeyError
num_call_keyerror ==
    /\ pc = "idle" /\ ncalls = 0
    /\ \E a \in NumArgs :
        /\ \E k \in 1..Len(a.columnas) : a.columnas[k] \notin DOMAIN df.data
        /\ NumStart(a)
    /\ pc' = "raised"
    /\ err' = "KeyError"
    /\ UNCHANGED <<validas, contexto>>

\* lines 77-91: no valid numeric column
num_call_sin_validas ==
    /\ pc = "idle" /\ ncalls = 0
    /\ \E a \in NumArgs :
        /\ \A k \in 1..Len(a.columnas) : a.columnas[k] \in DOMAIN df.data
        /\ ColumnasValidas(df, a.columnas) = <<>>
        /\ NumStart(a)
    /\ pc' = "returned"
    /\ validas' = <<>>
    /\ contexto' = ColsNumDf(df)
    /\ UNCHANGED err

\* lines 77-94
num_call ==
    /\ pc = "idle" /\ ncalls = 0
    /\ \E a \in NumArgs :
        /\ \A k \in 1..Len(a.columnas) : a.columnas[k] \in DOMAIN df.data
        /\ ColumnasValidas(df, a.columnas) # <<>>
        /\ NumStart(a)
        /\ validas' = ColumnasValidas(df, a.columnas)
    /\ pc' = "num_loop"
    /\ contexto' = ColsNumDf(df)
    /\ UNCHANGED err

NumCol == validas[i]

NumPct == porcentaje_nulos(df.data[NumCol], df.n)

Raise(e) ==
    /\ pc' = "raised"
    /\ err' = e
    /\ UNCHANGED <<df, df0, args, i, rama, ncalls, validas, contexto>>

\* lines 103 and 140 fitting and writing df[cols_num_contexto] instead of df[[col]]
FillMediana_contexto(tag) ==
    /\ ~MedianaFalla(df.data[NumCol])
    /\ df' = [df EXCEPT !.data = [c \in DOMAIN df.data |->
                    IF (\E k \in 1..Len(contexto) : contexto[k] = c) /\ ~MedianaFalla(df.data[c])
                    THEN fillna(df.data[c], mediana(df.data[c]))
                    ELSE df.data[c]],
                         !.dtype[NumCol] = "float64"]
    /\ rama' = [rama EXCEPT ![NumCol] = tag]
    /\ i' = i + 1
    /\ pc' = "num_loop"
    /\ UNCHANGED <<df0, args, ncalls, numvars>>

\* the fill by the column's own median, lines 103 and 140
FillMediana(tag) ==
    /\ ~MedianaFalla(df.data[NumCol])
    /\ df' = SetCol(df, NumCol, fillna(df.data[NumCol], mediana(df.data[NumCol])), "float64")
    /\ rama' = [rama EXCEPT ![NumCol] = tag]
    /\ i' = i + 1
    /\ pc' = "num_loop"
    /\ UNCHANGED <<df0, args, ncalls, numvars>>

\* lines 118 and 137 reading df[cols_num_contexto] = X_imputed: every context
\* column is written back
FillKnn_contexto(tag) ==
    /\ ~KnnFalla(df, contexto)
    /\ \E t \in KnnColumnas(df.data[NumCol]) :
          df' = [SetCol(df, NumCol, t, "float64") EXCEPT !.data =
                    [c \in DOMAIN df.data |->
                        IF c = NumCol THEN t
                        ELSE IF \E k \in 1..Len(contexto) : contexto[k] = c
                             THEN fillna(df.data[c], Kth(df.data[c], 1))
                             ELSE df.data[c]]]
    /\ rama' = [rama EXCEPT ![NumCol] = tag]
    /\ i' = i + 1
    /\ pc' = "num_loop"
    /\ UNCHANGED <<df0, args, ncalls, numvars>>

\* the fill by the neighbours, lines 108-118 and 127-137
FillKnn(tag) ==
    /\ ~KnnFalla(df, contexto)
    /\ \E t \in KnnColumnas(df.data[NumCol]) : df' = SetCol(df, NumCol, t, "float64")
    /\ rama' = [rama EXCEPT ![NumCol] = tag]
    /\ i' = i + 1
    /\ pc' = "num_loop"
    /\ UNCHANGED <<df0, args, ncalls, numvars>>

InLoop == pc = "num_loop" /\ i <= Len(validas)

\* line 102 reading < instead of <=
EsBajo_lt == ~Ge(NumPct, args.umbral_nulos_bajo)

EsBajo == Le(NumPct, args.umbral_nulos_bajo)

EsMedio == ~EsBajo /\ Le(NumPct, args.umbral_nulos_alto)

\* line 106 reading < instead of <=: a ratio at the high threshold falls through
EsAlto_ge == ~EsBajo /\ Ge(NumPct, args.umbral_nulos_alto)

EsAlto == ~EsBajo /\ ~Le(NumPct, args.umbral_nulos_alto)

\* lines 121-123 placed above the tier test of line 102
num_bajo_mediana_con_indicador ==
    /\ InLoop /\ EsBajo
    /\ ~MedianaFalla(df.data[NumCol])
    /\ df' = SetCol(IF args.crear_indicador_missing
                    THEN SetCol(df, Indicador(NumCol), isnull_astype_int(df.data[NumCol]), "int64")
                    ELSE df,
                    NumCol, fillna(df.data[NumCol], mediana(df.data[NumCol])), "float64")
    /\ rama' = [rama EXCEPT ![NumCol] = "bajo_mediana"]
    /\ i' = i + 1
    /\ pc' = "num_loop"
    /\ UNCHANGED <<df0, args, ncalls, numvars>>

\* lines 102-104
num_bajo_mediana == InLoop /\ EsBajo /\ FillMediana("bajo_mediana")

num_bajo_falla == InLoop /\ EsBajo /\ MedianaFalla(df.data[NumCol]) /\ Raise("ValueError")

\* lines 106-119
num_medio_knn == InLoop /\ EsMedio /\ FillKnn("medio_knn")

num_medio_falla == InLoop /\ EsMedio /\ KnnFalla(df, contexto) /\ Raise("ValueError")

\* lines 121-123
num_indicador ==
    /\ InLoop /\ EsAlto
    /\ args.crear_indicador_missing
    /\ df' = SetCol(df, Indicador(NumCol), isnull_astype_int(df.data[NumCol]), "int64")
    /\ pc' = "num_alto"
    /\ UNCHANGED <<df0, args, i, rama, ncalls, numvars>>

\* line 121, crear_indicador_missing false
num_sin_indicador ==
    /\ InLoop /\ EsAlto
    /\ ~args.crear_indicador_missing
    /\ pc' = "num_alto"
    /\ UNCHANGED <<df, df0, args, i, rama, ncalls, numvars>>

\* line 125 nested under the "if crear_indicador_missing" of line 121
UsaKnnEnAlto_anidado == args.usar_knn_en_alto /\ args.crear_indicador_missing

\* line 125
UsaKnnEnAlto == args.usar_knn_en_alto

\* lines 125-137
num_alto_knn == pc = "num_alto" /\ UsaKnnEnAlto /\ FillKnn("alto_knn")

num_alto_knn_falla ==
    pc = "num_alto" /\ UsaKnnEnAlto /\ KnnFalla(df, contexto) /\ Raise("ValueError")

\* lines 139-140
num_alto_mediana == pc = "num_alto" /\ ~UsaKnnEnAlto /\ FillMediana("alto_mediana")

num_alto_mediana_falla ==
    /\ pc = "num_alto" /\ ~UsaKnnEnAlto
    /\ MedianaFalla(df.data[NumCol]) /\ Raise("ValueError")

\* the loop of line 96 is over, the loop of line 142 starts
num_fin_bucle ==
    /\ pc = "num_loop" /\ i > Len(validas)
    /\ pc' = "num_restore"
    /\ i' = 1
    /\ UNCHANGED <<df, df0, args, rama, ncalls, numvars>>

\* lines 142-149 without the is_integer_dtype test of line 144
num_restaurar_todas ==
    /\ pc = "num_restore" /\ i <= Len(validas)
    /\ df' = SetCol(df, NumCol, restaurar(df.data[NumCol]), "Int64")
    /\ i' = i + 1
    /\ UNCHANGED <<df0, pc, args, rama, ncalls, numvars>>

\* lines 142-149, one column
num_restaurar ==
    /\ pc = "num_restore" /\ i <= Len(validas)
    /\ df' = IF NumCol \in DOMAIN df0.dtype /\ df0.dtype[NumCol] \in IntegerDtypes
             THEN SetCol(df, NumCol, restaurar(df.data[NumCol]), "Int64")
             ELSE df
    /\ i' = i + 1
    /\ UNCHANGED <<df0, pc, args, rama, ncalls, numvars>>

\* line 151
imputar_numericas_return ==
    /\ pc = "num_restore" /\ i > Len(validas)
    /\ pc' = "returned"
    /\ UNCHANGED <<df, df0, args, i, rama, ncalls, numvars>>

RatePatterns(n) ==
    {[r \in 1..n |-> Entero((r % 2) + 1)],
     [r \in 1..n |-> IF r = n THEN NA ELSE Entero((r % 2) + 1)],
     [r \in 1..n |-> IF r < n THEN NA ELSE Entero(1)],
     [r \in 1..n |-> NA]}

NumVals == {Entero(1), Entero(2)}

InitNum ==
    /\ \E n \in 0..MaxRows :
       \E age \in SeqsOver(NumVals \cup {NA}, n) :
       \E rate \in RatePatterns(n) :
          df = [n |-> n,
                cols |-> Schema,
                data |-> [c \in {"dept", "role", "age", "rate"} |->
                            CASE c = "dept" -> [r \in 1..n |-> IF r = 1 THEN NA ELSE 1]
                              [] c = "role" -> [r \in 1..n |-> 2]
                              [] c = "age" -> age
                              [] c = "rate" -> rate],
                dtype |-> [c \in {"dept", "role", "age", "rate"} |->
                            CASE c \in {"dept", "role"} -> "object"
                              [] c = "age" -> "Int64"
                              [] c = "rate" -> "float64"]]
    /\ df0 = df
    /\ pc = "idle"
    /\ args = NoArgs
    /\ i = 1
    /\ rama = [c \in Names |-> "none"]
    /\ ncalls = 0
    /\ validas = <<>>
    /\ contexto = <<>>
    /\ err = "none"

NextNum ==
    \/ num_call_keyerror
    \/ num_call_sin_validas
    \/ num_call
    \/ num_bajo_mediana
    \/ num_bajo_falla
    \/ num_medio_knn
    \/ num_medio_falla
    \/ num_indicador
    \/ num_sin_indicador
    \/ num_alto_knn
    \/ num_alto_knn_falla
    \/ num_alto_mediana
    \/ num_alto_mediana_falla
    \/ num_fin_bucle
    \/ num_restaurar
    \/ imputar_numericas_return

SpecNum == InitNum /\ [][NextNum]_vars

\* ------------------------------------- imputar_numericas, called once more
\* the caller hands the returned DataFrame and the same arguments to
\* imputar_numericas again, lines 77-94; the first call returned, so every
\* requested label is a column
imputar_numericas_again ==
    /\ pc = "returned"
    /\ args.fn = "imputar_numericas"
    /\ ncalls < MaxCalls
    /\ ColumnasValidas(df, args.columnas) # <<>>
    /\ NumStart(args)
    /\ validas' = ColumnasValidas(df, args.columnas)
    /\ pc' = "num_loop"
    /\ contexto' = ColsNumDf(df)
    /\ UNCHANGED err

\* the same, lines 77-91: no valid numeric column
imputar_numericas_again_sin_validas ==
    /\ pc = "returned"
    /\ args.fn = "imputar_numericas"
    /\ ncalls < MaxCalls
    /\ ColumnasValidas(df, args.columnas) = <<>>
    /\ NumStart(args)
    /\ pc' = "returned"
    /\ validas' = <<>>
    /\ contexto' = ColsNumDf(df)
    /\ UNCHANGED err

NextNumAgain ==
    \/ NextNum
    \/ imputar_numericas_again
    \/ imputar_numericas_again_sin_validas

SpecNumAgain == InitNum /\ [][NextNumAgain]_vars

\* ------------------------------------------------- either imputer, one call
Init == InitCat \/ InitNum

Next ==
    \/ imputar_categoricas_call
    \/ cat_omitir
    \/ cat_nulos_alto
    \/ cat_sin_valores
    \/ cat_moda
    \/ cat_unknown
    \/ imputar_categoricas_return
    \/ NextNum

Spec == Init /\ [][Next]_vars

\* --------------------------------------------------- run_cleaning_pipeline
\* a cell of a text column that is empty or holds white space only
BLANK == 0

\* the default etiqueta_unknown, "Unknown"
DEF_etiqueta_unknown == 3

\* the thresholds of the pipeline are fixed at 0.05 and 0.20: a column with one
\* missing cell is in the moderate tier from five rows on
PipeRows == MaxRows + 1

\* str.lower() on the column labels of the dataset
Lower(c) == CASE c = "Attrition" -> "attrition"
              [] c = "Dept" -> "dept"
              [] OTHER -> c

\* line 121 without the filter of line 122
ColsCat_con_objetivo(d) ==
    LET Test(c) == d.dtype[c] \in {"object", "category"}
    IN  SelectSeq(d.cols, Test)

\* lines 121-122: the text columns in column order, the target left out
ColsCat(d) ==
    LET Test(c) == d.dtype[c] \in {"object", "category"} /\ Lower(c) # "attrition"
    IN  SelectSeq(d.cols, Test)

\* line 123: replace(r'^\s*$', pd.NA, regex=True) on the columns cols
replace_blancos(d, cols) ==
    [d EXCEPT !.data = [c \in DOMAIN d.data |->
        IF \E k \in 1..Len(cols) : cols[k] = c
        THEN [r \in DOMAIN d.data[c] |-> IF d.data[c][r] = BLANK THEN NA ELSE d.data[c][r]]
        ELSE d.data[c]]]

\* line 124: imp.imputar_categoricas(df, cols_cat), every threshold at its default
PipeCatArgs(cols) ==
    [fn |-> "imputar_categoricas",
     columnas |-> cols,
     umbral_nulos_alto |-> DEF_umbral_nulos_alto,
     umbral_nulos_bajo |-> DEF_umbral_nulos_bajo,
     umbral_moda_bajo |-> DEF_umbral_moda_bajo,
     umbral_moda_medio |-> DEF_umbral_moda_medio,
     umbral_ventaja |-> DEF_umbral_ventaja,
     etiqueta_unknown |-> DEF_etiqueta_unknown]

\* lines 121-124, up to the first iteration of the loop of imputar_categoricas
pipe_imputar_categoricas ==
    /\ pc = "pipe"
    /\ df' = replace_blancos(df, ColsCat(df))
    /\ df0' = df'
    /\ args' = PipeCatArgs(ColsCat(df))
    /\ pc' = "cat_loop"
    /\ i' = 1
    /\ rama' = [c \in Names |-> "none"]
    /\ ncalls' = 1
    /\ UNCHANGED numvars

\* line 131: the numeric columns that hold a missing cell
ColsNum(d) ==
    LET Test(c) == EsNumerica(d, c) /\ nulos_de(d.data[c]) > 0
    IN  SelectSeq(d.cols, Test)

\* lines 134-142
PipeNumArgs(cols) ==
    [fn |-> "imputar_numericas",
     columnas |-> cols,
     umbral_nulos_bajo |-> DEF_umbral_nulos_bajo,
     umbral_nulos_alto |-> DEF_umbral_nulos_alto,
     crear_indicador_missing |-> TRUE,
     usar_knn_en_alto |-> FALSE]

\* the numeric block of lines 131-142 placed above the call of line 124
TrasCategoricas_antes == pc = "cat_loop" /\ i = 1

\* control is at line 125: imputar_categoricas has returned
TrasCategoricas == pc = "returned" /\ args.fn = "imputar_categoricas"

\* lines 125-142 and lines 77-91 of imputar_numericas: no column to impute
pipe_numericas_sin_validas ==
    /\ TrasCategoricas
    /\ ColumnasValidas(df, ColsNum(df)) = <<>>
    /\ NumStart(PipeNumArgs(ColsNum(df)))
    /\ pc' = "returned"
    /\ validas' = <<>>
    /\ contexto' = ColsNumDf(df)
    /\ UNCHANGED err

\* lines 125-142 and lines 77-94 of imputar_numericas
pipe_imputar_numericas ==
    /\ TrasCategoricas
    /\ ColumnasValidas(df, ColsNum(df)) # <<>>
    /\ NumStart(PipeNumArgs(ColsNum(df)))
    /\ validas' = ColumnasValidas(df, ColsNum(df))
    /\ pc' = "num_loop"
    /\ contexto' = ColsNumDf(df)
    /\ UNCHANGED err

\* lines 143-150
pipe_exportar ==
    /\ pc = "returned"
    /\ args.fn = "imputar_numericas"
    /\ pc' = "exported"
    /\ UNCHANGED <<df, df0, args, i, rama, ncalls, numvars>>

PipeSchema == <<"dept", "role", "age", "rate", "attrition">>

AgePatterns(n) ==
    {[r \in 1..n |-> Entero(r)],
     [r \in 1..n |-> IF r = 1 THEN NA ELSE Entero(r)]}

\* the target column: a missing cell, an empty cell, values
AttritionPattern(n) ==
    [r \in 1..n |-> CASE r = 1 -> NA
                      [] r = 2 -> BLANK
                      [] OTHER -> 1]

\* the dataset at line 121: labels normalised, text stripped, types converted
InitPipe ==
    /\ \E n \in 0..PipeRows :
       \E dept \in SeqsOver(CatVals \cup {NA, BLANK}, n) :
       \E role \in RolePatterns(n) :
       \E age \in AgePatterns(n) :
       \E rate \in RatePatterns(n) :
          df = [n |-> n,
                cols |-> PipeSchema,
                data |-> [c \in {"dept", "role", "age", "rate", "attrition"} |->
                            CASE c = "dept" -> dept
                              [] c = "role" -> role
                              [] c = "age" -> age
                              [] c = "rate" -> rate
                              [] c = "attrition" -> AttritionPattern(n)],
                dtype |-> [c \in {"dept", "role", "age", "rate", "attrition"} |->
                            CASE c \in {"dept", "role", "attrition"} -> "object"
                              [] c = "age" -> "Int64"
                              [] c = "rate" -> "float64"]]
    /\ df0 = df
    /\ pc = "pipe"
    /\ args = NoArgs
    /\ i = 1
    /\ rama = [c \in Names |-> "none"]
    /\ ncalls = 0
    /\ validas = <<>>
    /\ contexto = <<>>
    /\ err = "none"

\* The pipeline hands imputar_categoricas columns of the dataset only, and
\* imputar_numericas columns that hold a missing cell, with the indicator on
\* and the neighbours off for the high tier: a column with a missing cell has a
\* ratio of at least 1/PipeRows, above umbral_nulos_bajo.
NextPipe ==
    \/ pipe_imputar_categoricas
    \/ cat_nulos_alto
    \/ cat_sin_valores
    \/ cat_moda
    \/ cat_unknown
    \/ imputar_categoricas_return
    \/ pipe_numericas_sin_validas
    \/ pipe_imputar_numericas
    \/ num_medio_knn
    \/ num_medio_falla
    \/ num_indicador
    \/ num_alto_mediana
    \/ num_alto_mediana_falla
    \/ num_fin_bucle
    \/ num_restaurar
    \/ imputar_numericas_return
    \/ pipe_exportar

SpecPipe == InitPipe /\ [][NextPipe]_vars

\* ================================================================ claims
CatDone == pc = "returned" /\ args.fn = "imputar_categoricas"

Requested(c) == \E k \in 1..Len(args.columnas) : args.columnas[k] = c

\* the requested columns that exist in the DataFrame
CatTargets == {c \in DOMAIN df0.data : Requested(c)}

Ratio(s) == porcentaje_nulos(s, df0.n)

TopCount(s) ==
    IF Presentes(s) = {} THEN 0
    ELSE CHOOSE k \in 1..Len(s) : /\ \E v \in Presentes(s) : Count(s, v) = k
                                  /\ \A v \in Presentes(s) : Count(s, v) <= k

Modes(s) == {v \in Presentes(s) : Count(s, v) = TopCount(s)}

\* count of the runner-up of the frequency ranking, 0 when one value only
SecondCount(s) ==
    IF Cardinality(Presentes(s)) <= 1 THEN 0
    ELSE IF Cardinality(Modes(s)) > 1 THEN TopCount(s)
    ELSE CHOOSE k \in 1..Len(s) :
            /\ \E v \in Presentes(s) \ Modes(s) : Count(s, v) = k
            /\ \A v \in Presentes(s) \ Modes(s) : Count(s, v) <= k

\* the mode-confidence threshold that applies to a column
Aplicable(s) == IF Le(Ratio(s), args.umbral_nulos_bajo) THEN args.umbral_moda_bajo
                ELSE args.umbral_moda_medio

FilledWith(c, v) == df.data[c] = fillna(df0.data[c], v)

\* C1: after imputar_categoricas returns, every requested column that exists in
\* the DataFrame has zero missing cells
C1_CatCompleta ==
    CatDone => \A c \in CatTargets : nulos_de(df.data[c]) = 0

C1_Witness ==
    /\ CatDone /\ ncalls = 1
    /\ nulos_de(df0.data["dept"]) > 0 /\ nulos_de(df0.data["role"]) > 0
    /\ rama["dept"] = "sin_valores" /\ rama["role"] \in {"nulos_alto", "unknown"}
    /\ nulos_de(df.data["dept"]) = 0 /\ nulos_de(df.data["role"]) = 0

C5_AltoSiempreUnknown ==
    CatDone =>
      \A c \in CatTargets :
        Gt(Ratio(df0.data[c]), args.umbral_nulos_alto) =>
          rama[c] = "nulos_alto" /\ FilledWith(c, args.etiqueta_unknown)

\* a single distinct present value, not the label, and still the label is used
C5_Witness ==
    /\ CatDone /\ ncalls = 1
    /\ Gt(Ratio(df0.data["dept"]), args.umbral_nulos_alto)
    /\ Cardinality(Presentes(df0.data["dept"])) = 1
    /\ TopCount(df0.data["dept"]) = 3
    /\ args.etiqueta_unknown \notin Presentes(df0.data["dept"])
    /\ args.etiqueta_unknown \in Presentes(df.data["dept"])

\* C6: a column whose missing ratio equals the high threshold takes the
\* mode-evaluation branch, not the automatic fallback
C6_IgualAltoEvaluaModa ==
    CatDone =>
      \A c \in CatTargets :
        LET s == df0.data[c]
        IN  (df0.n > 0 /\ nulos_de(s) * Den = args.umbral_nulos_alto * df0.n) =>
              rama[c] \in {"sin_valores", "moda", "unknown"}

C6_Witness ==
    /\ CatDone /\ ncalls = 1
    /\ nulos_de(df0.data["dept"]) > 0
    /\ nulos_de(df0.data["dept"]) * Den = args.umbral_nulos_alto * df0.n
    /\ rama["dept"] = "moda"
    /\ df.data["dept"] # fillna(df0.data["dept"], args.etiqueta_unknown)

\* C7: a column whose top share (over total rows) is below the applicable mode
\* threshold has every missing cell filled with the fallback label
C7_BajoUmbralUnknown ==
    CatDone =>
      \A c \in CatTargets :
        LET s == df0.data[c]
        IN  (df0.n > 0 /\ TopCount(s) * Den < Aplicable(s) * df0.n) =>
              rama[c] # "moda" /\ FilledWith(c, args.etiqueta_unknown)

\* margin satisfied, ratio not above the high threshold, top share too small
C7_Witness ==
    /\ CatDone /\ ncalls = 1
    /\ rama["dept"] = "unknown"
    /\ nulos_de(df0.data["dept"]) > 0
    /\ TopCount(df0.data["dept"]) * Den < Aplicable(df0.data["dept"]) * df0.n
    /\ (TopCount(df0.data["dept"]) - SecondCount(df0.data["dept"])) * Den
          >= args.umbral_ventaja * df0.n
    /\ args.etiqueta_unknown \notin Presentes(df0.data["dept"])
    /\ args.etiqueta_unknown \in Presentes(df.data["dept"])

\* C8: a call on requested columns without missing cells changes no cell, and a
\* second call in a row leaves the DataFrame as the first call left it
C8_CatIdempotente ==
    CatDone =>
      /\ (\A c \in CatTargets : nulos_de(df0.data[c]) = 0) => df = df0
      /\ ncalls >= 2 => df = df0

\* second call returned after a first call that wrote the label 3 into role
C8_Witness ==
    /\ CatDone /\ ncalls = 2
    /\ Requested("dept") /\ Requested("role")
    /\ 3 \in Presentes(df.data["role"])
    /\ rama["dept"] # "none" /\ rama["role"] # "none"

NumDone == pc = "returned" /\ args.fn = "imputar_numericas"

\* the eligible columns: requested, in the DataFrame, of numeric kind
Eligibles == {c \in DOMAIN df0.data : Requested(c) /\ df0.dtype[c] \in NumericDtypes}

\* C2: after imputar_numericas returns, every eligible column has zero missing
\* cells, whichever branch filled it
C2_NumCompleta ==
    NumDone => \A c \in Eligibles : nulos_de(df.data[c]) = 0

\* one column filled by the neighbours, the other by the high-missingness median
C2_Witness ==
    /\ NumDone
    /\ Eligibles = {"age", "rate"}
    /\ nulos_de(df0.data["age"]) > 0 /\ nulos_de(df0.data["rate"]) > 0
    /\ rama["age"] = "medio_knn" /\ rama["rate"] = "alto_mediana"
    /\ nulos_de(df.data["age"]) = 0 /\ nulos_de(df.data["rate"]) = 0

\* C3: a requested name that is no column of the DataFrame is skipped without
\* an error and the eligible columns of the request are still imputed
C3_AusenteOmitida ==
    (args.fn = "imputar_numericas" /\ \E c \in Names \ DOMAIN df0.data : Requested(c)) =>
        /\ pc # "raised"
        /\ pc = "returned" => \A c \in Eligibles : nulos_de(df.data[c]) = 0

C10_EnteroRestaurado ==
    NumDone =>
      \A c \in Eligibles :
        (df0.dtype[c] \in IntegerDtypes /\ Le(Ratio(df0.data[c]), args.umbral_nulos_bajo)) =>
          /\ df.dtype[c] \in IntegerDtypes
          /\ \A r \in 1..df0.n : df.data[c][r] # NA /\ df.data[c][r] % 2 = 0

\* two present values 1 and 2: the median 1.5 was written and rounded
C10_Witness ==
    /\ NumDone
    /\ rama["age"] = "bajo_mediana"
    /\ nulos_de(df0.data["age"]) > 0
    /\ (Len(df0.data["age"]) - nulos_de(df0.data["age"])) % 2 = 0
    /\ mediana(df0.data["age"]) % 2 = 1
    /\ df.dtype["age"] = "Int64"

\* the columns the running imputar_numericas call has filled so far
Procesadas == {c \in Names : rama[c] # "none"}

NumRunning == args.fn = "imputar_numericas"

\* C11: the fill strategy follows the column's own missing ratio: own median
\* when ratio <= low, neighbours when low < ratio <= high, the high-missingness
\* handling only when ratio > high
C11_RamaPorRatio ==
    NumRunning =>
      \A c \in Procesadas :
        LET p == Ratio(df0.data[c])
        IN  /\ rama[c] = "bajo_mediana" <=> Le(p, args.umbral_nulos_bajo)
            /\ rama[c] = "medio_knn" <=>
                  (~Le(p, args.umbral_nulos_bajo) /\ Le(p, args.umbral_nulos_alto))
            /\ rama[c] \in {"alto_mediana", "alto_knn"} <=>
                  (~Le(p, args.umbral_nulos_bajo) /\ Gt(p, args.umbral_nulos_alto))

\* both inclusive boundaries at once, each with a missing cell
C11_Witness ==
    /\ NumDone
    /\ nulos_de(df0.data["rate"]) > 0
    /\ nulos_de(df0.data["rate"]) * Den = args.umbral_nulos_bajo * df0.n
    /\ rama["rate"] = "bajo_mediana"
    /\ args.umbral_nulos_bajo < args.umbral_nulos_alto
    /\ nulos_de(df0.data["age"]) * Den = args.umbral_nulos_alto * df0.n
    /\ rama["age"] = "medio_knn"

C13_SinElegiblesSinCambio ==
    (NumRunning /\ Eligibles = {}) => pc = "returned" /\ df = df0

Ausentes == {c \in Names \ DOMAIN df0.data : Requested(c)}

\* C15: imputar_categoricas skips a requested name that is no column, without
\* an error and without creating or writing anything for it, and every other
\* requested column is still processed and filled, wherever the absent name
\* stands in the list
C15_CatAusenteOmitida ==
    (args.fn = "imputar_categoricas" /\ Ausentes # {}) =>
      /\ pc # "raised"
      /\ DOMAIN df.data = DOMAIN df0.data
      /\ \A c \in Ausentes : rama[c] \in {"none", "omitida"}
      /\ CatDone =>
            /\ \A c \in Ausentes : rama[c] = "omitida"
            /\ \A c \in CatTargets : rama[c] # "none" /\ nulos_de(df.data[c]) = 0

\* the absent name between two columns that both had missing cells
C15_Witness ==
    /\ CatDone /\ ncalls = 1
    /\ args.columnas = <<"dept", "ghost", "role">>
    /\ nulos_de(df0.data["dept"]) > 0 /\ nulos_de(df0.data["role"]) > 0
    /\ nulos_de(df.data["dept"]) = 0 /\ nulos_de(df.data["role"]) = 0
    /\ rama["ghost"] = "omitida"

\* the requested columns of the DataFrame that are not of numeric kind
NoNumericas == {c \in DOMAIN df0.data : Requested(c) /\ df0.dtype[c] \notin NumericDtypes}

InSeq(s, x) == \E k \in 1..Len(s) : s[k] = x

\* C16: a non-numeric column passed to imputar_numericas is left out of the
\* eligible set without an error and is not touched (cells, dtype, no indicator),
\* and the numeric columns of the same request are still imputed
C16_NoNumericaExcluida ==
    (NumRunning /\ NoNumericas # {}) =>
      /\ \A c \in NoNumericas :
            /\ ~InSeq(validas, c)
            /\ rama[c] = "none"
            /\ df.data[c] = df0.data[c] /\ df.dtype[c] = df0.dtype[c]
            /\ Indicador(c) \notin DOMAIN df.data
      /\ pc = "raised" =>
            /\ err = "ValueError"
            /\ i \in 1..Len(validas) /\ validas[i] \in Eligibles
      /\ NumDone => \A c \in Eligibles : nulos_de(df.data[c]) = 0

C16_Witness ==
    /\ NumDone
    /\ args.columnas = <<"dept", "age">>
    /\ nulos_de(df0.data["age"]) > 0 /\ nulos_de(df.data["age"]) = 0
    /\ nulos_de(df.data["dept"]) > 0
    /\ validas = <<"age">>

\* C17: the integer restoration starts only when every eligible column is
\* filled; at return every eligible column that was of integer type holds whole
\* numbers in an integer type, whichever branch filled it, and an eligible
\* column of another type holds its fill unrounded
C17_RestauraAlFinal ==
    NumRunning =>
      /\ pc = "num_restore" => \A k \in 1..Len(validas) : nulos_de(df.data[validas[k]]) = 0
      /\ pc \in {"num_loop", "num_alto"} => \A c \in Procesadas : df.dtype[c] = "float64"
      /\ NumDone =>
            \A c \in Eligibles :
              IF df0.dtype[c] \in IntegerDtypes
              THEN /\ df.dtype[c] = "Int64"
                   /\ \A r \in 1..df0.n : df.data[c][r] # NA /\ df.data[c][r] % 2 = 0
              ELSE /\ df.dtype[c] = "float64"
                   /\ rama[c] \in {"bajo_mediana", "alto_mediana"} =>
                         df.data[c] = fillna(df0.data[c], mediana(df0.data[c]))
                   /\ rama[c] \in {"medio_knn", "alto_knn"} =>
                         df.data[c] \in KnnColumnas(df0.data[c])

\* both columns filled by a median 1.5 in the high branch: age rounded, rate not
C17_Witness ==
    /\ NumDone
    /\ rama["age"] = "alto_mediana" /\ rama["rate"] = "alto_mediana"
    /\ mediana(df0.data["age"]) % 2 = 1
    /\ nulos_de(df0.data["age"]) > 0
    /\ \A r \in 1..df0.n : df.data["age"][r] % 2 = 0
    /\ \E r \in 1..df0.n : df.data["rate"][r] % 2 = 1

\* C18: a column without any present value ends with every cell equal to the
\* fallback label, for every high threshold (also >= 1, where line 30 does not
\* fire), and the mode test of lines 42-66 is never reached for it
C18_SinValoresUnknown ==
    CatDone =>
      \A c \in CatTargets :
        Presentes(df0.data[c]) = {} =>
          /\ rama[c] \in {"nulos_alto", "sin_valores"}
          /\ \A r \in 1..df0.n : df.data[c][r] = args.etiqueta_unknown

\* high threshold 1.0: all cells missing is not above it
C18_Witness ==
    /\ CatDone /\ ncalls = 1
    /\ df0.n > 0
    /\ args.umbral_nulos_alto >= Den
    /\ Presentes(df0.data["dept"]) = {}
    /\ rama["dept"] = "sin_valores"
    /\ \A r \in 1..df0.n : df.data["dept"][r] = args.etiqueta_unknown

PipeCategoricas ==
    {c \in DOMAIN df.data : df.dtype[c] \in {"object", "category"} /\ Lower(c) # "attrition"}

\* C20: in run_cleaning_pipeline the categorical imputation runs to its end
\* before the numeric imputation starts: while it runs no numeric column and no
\* column list has changed, and from the start of the numeric imputation to the
\* export every text column is without a missing cell and holds what the
\* categorical imputation left in it
C20_CategoricasAntes ==
    /\ pc = "cat_loop" =>
          /\ ncalls = 1
          /\ df.cols = df0.cols
          /\ \A c \in DOMAIN df.data : EsNumerica(df, c) => df.data[c] = df0.data[c]
    /\ args.fn = "imputar_numericas" =>
          /\ ncalls = 2
          /\ \A c \in PipeCategoricas :
                /\ c \in DOMAIN df0.data
                /\ df.data[c] = df0.data[c]
                /\ df.dtype[c] = df0.dtype[c]
                /\ nulos_de(df.data[c]) = 0
    /\ pc = "exported" => args.fn = "imputar_numericas"

C20_Witness ==
    /\ pc = "exported"
    /\ \E r \in DOMAIN df.data["dept"] : df.data["dept"][r] = DEF_etiqueta_unknown
    /\ \E r \in DOMAIN df.data["role"] : df.data["role"][r] = 2
    /\ \A r \in DOMAIN df.data["role"] : df.data["role"][r] = 2
    /\ "rate_missing" \in DOMAIN df.data
    /\ rama["age"] = "medio_knn"
    /\ nulos_de(df.data["attrition"]) > 0
PasoKnn(c) == rama[c] = "none" /\ rama'[c] \in {"medio_knn", "alto_knn"}

\* C22: a neighbour fill of column c works on the numeric columns the DataFrame
\* had when the call started, requested or not and without the indicators made
\* since, and writes column c only: every other column, a context column that
\* still has missing cells included, holds after the step what it held before
C22_KnnSoloSuColumna ==
    [][\A c \in Names : PasoKnn(c) =>
          /\ contexto = ColsNumDf(df0)
          /\ \A k \in 1..Len(contexto) : contexto[k] \in DOMAIN df0.data
          /\ \E k \in 1..Len(contexto) : contexto[k] = c
          /\ df'.cols = df.cols
          /\ DOMAIN df'.data = DOMAIN df.data
          /\ \A x \in DOMAIN df.data \ {c} :
                df'.data[x] = df.data[x] /\ df'.dtype[x] = df.dtype[x]]_vars

\* age was filled by the neighbours with rate, not requested and with a missing
\* cell, in the context: rate still has its missing cell
C22_Witness ==
    /\ NumDone
    /\ validas = <<"age">>
    /\ contexto = <<"age", "rate">>
    /\ rama["age"] \in {"medio_knn", "alto_knn"}
    /\ df.data["age"] # df0.data["age"]
    /\ nulos_de(df.data["rate"]) > 0
    /\ df.data["rate"] = df0.data["rate"]
\* the columns a median branch of the running imputar_numericas call has filled
PorMediana == {c \in Procesadas : rama[c] \in {"bajo_mediana", "alto_mediana"}}

\* every cell of column c that held a value when the call started holds it still
PresentesIntactas(c) ==
    \A r \in 1..df0.n : df0.data[c][r] # NA => df.data[c][r] = df0.data[c][r]

\* C23: both imputers write missing cells only: from the start of the call to
\* its return, a cell that held a value in a column handed to
\* imputar_categoricas, or in a column imputar_numericas fills by the median,
\* holds the same value, the final rounding of integer columns included
C23_SoloCeldasNulas ==
    /\ (args.fn = "imputar_categoricas" /\ pc \in {"cat_loop", "returned"}) =>
          \A c \in CatTargets : PresentesIntactas(c)
    /\ (NumRunning /\ pc \in {"num_loop", "num_alto", "num_restore", "returned"}) =>
          \A c \in PorMediana : PresentesIntactas(c)

\* an integer column with two different values and a missing cell, filled by a
\* half-integer median that the restoration rounded
C23_Witness ==
    /\ NumDone
    /\ "age" \in PorMediana
    /\ df0.dtype["age"] = "Int64"
    /\ Cardinality(Presentes(df0.data["age"])) = 2
    /\ nulos_de(df0.data["age"]) > 0
    /\ mediana(df0.data["age"]) % 2 = 1
    /\ nulos_de(df.data["age"]) = 0
\* a column of two rows whose two values tie for first place, the larger first
EmpateDosValores == <<2, 1>>

\* C24: when imputar_categoricas takes the mode branch with umbral_ventaja > 0
\* the most frequent present value is unique, so mode()[0], the fill value, is
\* the first entry of the frequency ranking, whose share was tested; with
\* umbral_ventaja <= 0 a tie reaches the mode branch and the two differ
C24_ModaUnica ==
    /\ (args.fn = "imputar_categoricas" /\ args.umbral_ventaja > 0) =>
          \A c \in CatTargets :
            rama[c] = "moda" =>
              /\ Cardinality(Modes(df0.data[c])) = 1
              /\ value_counts(df0.data[c])[1].valor = mode0(df0.data[c])
              /\ FilledWith(c, value_counts(df0.data[c])[1].valor)
    /\ LET a == [PipeCatArgs(<<>>) EXCEPT !.umbral_ventaja = 0]
       IN  /\ CatRama(EmpateDosValores, Len(EmpateDosValores), a) = "moda"
           /\ value_counts(EmpateDosValores)[1].valor # mode0(EmpateDosValores)

\* the mode branch filled a missing cell of a column with two values, the
\* more frequent of them the one that appears second
C24_Witness ==
    /\ CatDone /\ args.umbral_ventaja > 0
    /\ rama["dept"] = "moda"
    /\ nulos_de(df0.data["dept"]) > 0
    /\ Cardinality(Presentes(df0.data["dept"])) = 2
    /\ FirstPos(df0.data["dept"], mode0(df0.data["dept"])) > 1
    /\ df.data["dept"] = fillna(df0.data["dept"], mode0(df0.data["dept"]))

\* with umbral_ventaja = 0 a tie takes the mode branch and the first entry of
\* the ranking is not the value mode()[0] returns
C24_EmpateEnModa ==
    /\ CatDone /\ args.umbral_ventaja = 0
    /\ rama["dept"] = "moda"
    /\ Cardinality(Modes(df0.data["dept"])) = 2
    /\ value_counts(df0.data["dept"])[1].valor # mode0(df0.data["dept"])
\* what imputar_categoricas leaves in column c, from the column's own cells at
\* the start of the call, the number of rows and the configuration
CatFinal(c) == fillna(df0.data[c], CatRelleno(df0.data[c], df0.n, args))

\* C25: the result of imputar_categoricas is the same for every order of the
\* requested columns: a column whose turn has not come holds its cells of the
\* start, and after the return every requested column of the DataFrame holds
\* what its own cells, the row count and the configuration give, every other
\* column and the column list what they held, with no part for the position of
\* a name in the request
C25_OrdenIndiferente ==
    /\ (args.fn = "imputar_categoricas" /\ pc = "cat_loop") =>
          \A k \in i..Len(args.columnas) :
            args.columnas[k] \in DOMAIN df.data /\ (\A j \in 1..(i - 1) : args.columnas[j] # args.columnas[k])
              => df.data[args.columnas[k]] = df0.data[args.columnas[k]]
    /\ CatDone =>
          /\ df.cols = df0.cols /\ df.n = df0.n /\ df.dtype = df0.dtype
          /\ DOMAIN df.data = DOMAIN df0.data
          /\ \A c \in DOMAIN df0.data :
                df.data[c] = IF c \in CatTargets THEN CatFinal(c) ELSE df0.data[c]
          /\ \A c \in CatTargets : rama[c] = CatRama(df0.data[c], df0.n, args)

\* role, requested first and above the high threshold, got the label; dept,
\* requested after it, got its own mode
C25_Witness ==
    /\ CatDone
    /\ args.columnas = <<"role", "dept">>
    /\ rama["role"] = "nulos_alto" /\ rama["dept"] = "moda"
    /\ nulos_de(df0.data["dept"]) > 0
    /\ df.data["dept"] = fillna(df0.data["dept"], mode0(df0.data["dept"]))
    /\ mode0(df0.data["dept"]) # args.etiqueta_unknown
    /\ df.data["role"] # df0.data["role"]
\* C26: run_cleaning_pipeline hands the categorical imputer every text column
\* but the one named attrition, and no stage writes that column: its missing
\* cell is still missing and its empty cell still empty in the exported dataset
C26_AttritionIntacta ==
    /\ args.fn = "imputar_categoricas" =>
          \A c \in DOMAIN df.data :
            Requested(c) <=> (df.dtype[c] \in {"object", "category"} /\ Lower(c) # "attrition")
    /\ ~Requested("attrition")
    /\ "attrition_missing" \notin DOMAIN df.data
    /\ df.data["attrition"] = AttritionPattern(df.n)
    /\ df.dtype["attrition"] = "object"

\* exported with both other text columns imputed and attrition as it came
C26_Witness ==
    /\ pc = "exported"
    /\ nulos_de(df.data["attrition"]) = 1
    /\ \E r \in DOMAIN df.data["attrition"] : df.data["attrition"][r] = BLANK
    /\ \E r \in DOMAIN df.data["dept"] : df.data["dept"][r] = DEF_etiqueta_unknown
    /\ \E r \in DOMAIN df.data["role"] : df.data["role"][r] = DEF_etiqueta_unknown
    /\ nulos_de(df.data["dept"]) = 0 /\ nulos_de(df.data["role"]) = 0
    /\ nulos_de(df.data["age"]) = 0 /\ nulos_de(df.data["rate"]) = 0
\* a call of imputar_numericas on the DataFrame an earlier call returned
NumOtraVez == NumRunning /\ ncalls >= 2

\* C27: imputar_numericas called again with the same arguments on the DataFrame
\* it returned changes nothing: every requested column has no missing cell and
\* takes the low branch, whose median fills no cell; no column is added, the
\* indicators of the first call keep their cells, and the DataFrame returned is
\* the one handed in, integer types restored
C27_SegundaVezNada ==
    NumOtraVez =>
      /\ pc \in {"num_loop", "num_restore", "returned"}
      /\ \A c \in Procesadas : rama[c] = "bajo_mediana"
      /\ \A k \in 1..Len(validas) : nulos_de(df0.data[validas[k]]) = 0
      /\ df.cols = df0.cols /\ df.n = df0.n
      /\ df.data = df0.data
      /\ pc = "returned" => df = df0

\* the second call is over: rate is above the high threshold in the first call
\* and its indicator still marks the rows that were missing, age is an integer
\* column again
C27_Witness ==
    /\ NumOtraVez /\ pc = "returned"
    /\ validas = <<"rate", "age">>
    /\ rama["rate"] = "bajo_mediana" /\ rama["age"] = "bajo_mediana"
    /\ "rate_missing" \in DOMAIN df.data
    /\ Entero(1) \in Presentes(df.data["rate_missing"])
    /\ Entero(0) \in Presentes(df.data["rate_missing"])
    /\ df.dtype["age"] = "Int64"
    /\ df = df0

====
